---- MODULE Spec2Model ----
(***************************************************************************)
(* Model of the Arduino crash monitor (CrashTracking/ApplicationMonitor):  *)
(* a watchdog whose interrupt handler logs the interrupted program address *)
(* and a user data word into a circular log kept in the eeprom.            *)
(*                                                                         *)
(* Hardware the source relies on but does not contain is modelled as the   *)
(* AVR data sheet and avr-libc describe it:                                *)
(*  - an erased eeprom cell reads 0xFF; eeprom is the map of the cells     *)
(*    written so far, every other cell reads 0xFF;                         *)
(*  - eeprom_write_byte programs one cell in 3.3 ms. The watchdog          *)
(*    oscillator runs on meanwhile: the writes of the handler use up the   *)
(*    period that the interrupt started, the reset falls in the write      *)
(*    during which that period ends, and the byte of that write is not     *)
(*    stored;                                                              *)
(*  - the destination of Dump takes its own time for every character       *)
(*    (Serial waits for the line once its buffer is full), so a running    *)
(*    watchdog can time out after any character of Dump;                   *)
(*  - println ends a line with carriage return and line feed;              *)
(*  - wdt_enable(t) sets WDE with prescaler t, clears WDIE and restarts    *)
(*    the counter; wdt_reset() restarts the counter; wdt_disable() clears  *)
(*    WDIE and the prescaler, and WDE unless WDRF is set;                  *)
(*  - with WDE and WDIE set the first time-out raises WDT_vect and clears  *)
(*    WDIE, the counter keeps running; with WDE set and WDIE clear a       *)
(*    time-out resets the micro;                                           *)
(*  - one tick of the model is the shortest watchdog period, Timeout t     *)
(*    lasts 2^t ticks;                                                     *)
(*  - a watchdog reset sets WDRF in MCUSR. While WDRF is set WDE is forced  *)
(*    on, and after the reset the watchdog runs in reset mode with the     *)
(*    shortest period. Neither the constructor nor Program.cpp clears      *)
(*    MCUSR; a boot loader may clear it and turn the watchdog off before   *)
(*    the program starts. The model takes either outcome at every reset;   *)
(*  - a uint32_t is stored with four byte stores, which the watchdog       *)
(*    interrupt can separate; the compiler chooses their order;            *)
(*  - a reset zeroes the globals and runs the static constructor again.    *)
(***************************************************************************)
EXTENDS Integers, Sequences, FiniteSets, TLC

\* ------------------------------------------------------------------ bounds
\* Largest nMaxEntries tried besides DEFAULT_ENTRIES.
MaxEntriesBound == 2
\* Watchdog interrupts delivered in one behaviour: enough to fill the log
\* of MaxEntriesBound slots and overwrite its first slot.
MaxTraps == MaxEntriesBound + 1
\* Watchdog time-outs of one behaviour that may fall inside a call of SetData
\* or of Dump instead of between two calls: the interrupts up to this one,
\* and the resets of behaviours with no more interrupts than this.
CallTraps == 1

\* ------------------------------------------------------- program constants
DEFAULT_ENTRIES == 10
DEFAULT_BASE_ADDRESS == 500
ERASED == 255
UINT8_MAX == 255
SIZEOF_HEADER == 2
SIZEOF_DATA == 4
Timeout_15ms == 0
Timeout_30ms == 1
Timeout_60ms == 2
Timeout_120ms == 3
Timeout_250ms == 4
Timeout_500ms == 5
Timeout_1s == 6
Timeout_2s == 7
Timeout_4s == 8
Timeout_8s == 9
WDTO_120MS == 3
\* g_nEndOfTheWorld of Program.cpp and the milliseconds of its two delays.
END_OF_THE_WORLD == 15
DELAY_MS == 200
\* Milliseconds of one tick: the shortest watchdog period (2048 cycles of
\* the 128 kHz oscillator).
TICK_MS == 16
\* Microseconds of one eeprom_write_byte.
EEPROM_WRITE_US == 3300
DEC == 10
HEX == 16

\* A uint32_t as its two 16-bit halves (TLC integers are 32-bit
\* signed, so 0xCAFEBABE is not one of them).
U32(hi, lo) == [hi |-> hi, lo |-> lo]
\* The uint32_t of a non-negative int below 2^31.
ToU32(n) == U32(n \div 65536, n % 65536)
\* Sample arguments of SetData(uint32_t): 0, the value the constructor
\* leaves, and 0xCAFEBABE, whose four bytes differ. Program.cpp itself
\* passes 0..15 (ProgramSpec).
UserDataValues == {U32(0, 0), U32(51966, 47806)}
\* The bytes on top of the stack when WDT_vect is entered, first pushed byte
\* last: 12 34 56 and AB CD EF (a 2-byte target shows the first two).
StackContents == {<<18, 52, 86>>, <<171, 205, 239>>}
\* Every value of enum ETimeout.
ETimeout ==
  {Timeout_15ms, Timeout_30ms, Timeout_60ms, Timeout_120ms, Timeout_250ms,
   Timeout_500ms, Timeout_1s, Timeout_2s, Timeout_4s, Timeout_8s}
\* The two shortest time-outs, sample arguments of EnableWatchdog in CutSpec
\* and RaceSpec: one that ends while the handler is writing its report and
\* one that the handler outlasts. TimeoutSpec arms every value of ETimeout,
\* ProgramSpec the Timeout_4s of Program.cpp.
ArmTimeouts == {Timeout_15ms, Timeout_30ms}
\* The sample argument of EnableWatchdog in Spec: the shortest time-out that
\* the handler outlasts (its eeprom writes take 29.7 of the 32 ms).
ClientTimeouts == {Timeout_30ms}
\* PROGRAM_COUNTER_SIZE of the two targets.
ProgramCounterSizes == {2, 3}
MaxEntriesValues == (1..MaxEntriesBound) \cup {DEFAULT_ENTRIES}

VARIABLES
  c_nBaseAddress,   \* eeprom address of the header
  c_nMaxEntries,    \* number of report slots
  PROGRAM_COUNTER_SIZE, \* bytes of a return address on this target
  eeprom,           \* cells written so far: address -> byte
  m_CrashReport,    \* the in-memory report: m_auAddress, m_uData
  wdtOn,            \* WDE
  wdie,             \* WDIE
  wdtTimeout,       \* prescaler selected by the last wdt_enable
  wdtCount,         \* ticks since the counter was last restarted
  wdrf,             \* WDRF of MCUSR: set by a watchdog reset
  pc,               \* "run", or the handler's position
  uByte,            \* bytes WriteBlock has written of the block it is writing
  Header,           \* the handler's local CApplicationMonitorHeader
  upStack,          \* the stack bytes WDT_vect points the handler at
  sink,             \* the characters the step just taken printed
  dumpArg,          \* "none"; the bOnlyIfPresent of the Dump that has just
                    \* returned; "cut" when the step cut a Dump short
  ppc,              \* Program.cpp: where setup() and loop() have got to
  g_nIterations,    \* Program.cpp: int g_nIterations
  g_nEndOfTheWorld, \* Program.cpp: int g_nEndOfTheWorld
  traps,            \* history: one record per watchdog interrupt
  slotTrap,         \* history: slot -> number of the trap that wrote it
  cutShort,         \* history: a reset hit a handler before SaveHeader ended
  sinceAlive,       \* history: ticks since IAmAlive or EnableWatchdog
  alive,            \* history: IAmAlive was called since EnableWatchdog
  lastSet,          \* history: argument of the last SetData of this boot
  disarmed,         \* history: DisableWatchdog was called and no EnableWatchdog since
  eepromAtTrap      \* history: the eeprom when the running handler was entered

vars == <<c_nBaseAddress, c_nMaxEntries, PROGRAM_COUNTER_SIZE, eeprom,
          m_CrashReport, wdtOn, wdie, wdtTimeout, wdtCount, wdrf, pc, uByte,
          Header, upStack, sink, dumpArg, ppc, g_nIterations,
          g_nEndOfTheWorld, traps, slotTrap, cutShort, sinceAlive, alive,
          lastSet, disarmed, eepromAtTrap>>

config == <<c_nBaseAddress, c_nMaxEntries, PROGRAM_COUNTER_SIZE>>
history == <<traps, slotTrap, cutShort>>
watchdog == <<wdtOn, wdie, wdtTimeout, wdtCount, wdrf>>
program == <<ppc, g_nIterations, g_nEndOfTheWorld>>

\* ----------------------------------------------------------------- helpers
Min(a, b) == IF a < b THEN a ELSE b

RECURSIVE Pow(_, _)
Pow(b, e) == IF e = 0 THEN 1 ELSE b * Pow(b, e - 1)

\* The four bytes of a uint32_t in memory order (AVR is little-endian).
ToBytes(u) == <<u.lo % 256, u.lo \div 256, u.hi % 256, u.hi \div 256>>

\* The uint32_t whose memory holds the bytes bs (at most four), the rest 0.
FromBytes(bs) ==
  LET b(i) == IF i <= Len(bs) THEN bs[i] ELSE 0
  IN  U32(b(3) + 256 * b(4), b(1) + 256 * b(2))

\* uValue * 2 and uValue / uRadix, uValue % uRadix in uint32_t arithmetic.
TimesTwo(u) ==
  U32((2 * u.hi + (2 * u.lo) \div 65536) % 65536, (2 * u.lo) % 65536)
DivU32(u, d) == U32(u.hi \div d, ((u.hi % d) * 65536 + u.lo) \div d)
ModU32(u, d) == ((u.hi % d) * 65536 + u.lo) % d

SizeofReport == PROGRAM_COUNTER_SIZE + SIZEOF_DATA

TimeoutTicks(t) == Pow(2, t)

\* ------------------------------------------------------------ eeprom access
eeprom_read_byte(ee, a) == IF a \in DOMAIN ee THEN ee[a] ELSE ERASED

ReadBlock(ee, nBaseAddress, uSize) ==
  [i \in 1..uSize |-> eeprom_read_byte(ee, nBaseAddress + i - 1)]

eeprom_write_byte(ee, a, uValue) ==
  [x \in DOMAIN ee \cup {a} |-> IF x = a THEN uValue ELSE ee[x]]

\* A loop pass that writes its byte one cell too far.
WriteBlockPassOffByOne(ee, nBaseAddress, puData, uDone) ==
  eeprom_write_byte(ee, nBaseAddress + uDone + 1, puData[uDone + 1])

\* One pass of the loop of WriteBlock, uDone bytes of the block written
\* before it: eeprom_write_byte(nBaseAddress++, *puData++).
WriteBlockPass(ee, nBaseAddress, puData, uDone) ==
  eeprom_write_byte(ee, nBaseAddress + uDone, puData[uDone + 1])

\* The cells after the passes uDone + 1 .. Len(puData) of the loop.
RECURSIVE WriteBlockFrom(_, _, _, _)
WriteBlockFrom(ee, nBaseAddress, puData, uDone) ==
  IF uDone >= Len(puData)
    THEN ee
    ELSE WriteBlockFrom(WriteBlockPass(ee, nBaseAddress, puData, uDone),
                        nBaseAddress, puData, uDone + 1)

\* A WriteBlock that no reset interrupts.
WriteBlock(ee, nBaseAddress, puData) ==
  WriteBlockFrom(ee, nBaseAddress, puData, 0)

\* ---------------------------------------------------------------- layout
\* Slots laid out with the stride of the user data alone.
GetAddressForReportDataStride(nReport) ==
  LET nAddress == c_nBaseAddress + SIZEOF_HEADER
  IN  IF nReport < c_nMaxEntries
        THEN nAddress + nReport * SIZEOF_DATA
        ELSE nAddress

GetAddressForReport(nReport) ==
  LET nAddress == c_nBaseAddress + SIZEOF_HEADER
  IN  IF nReport < c_nMaxEntries
        THEN nAddress + nReport * SizeofReport
        ELSE nAddress

\* The validation LoadHeader applies to the header it has read.
SanitizeHeaderWrap(h, nMaxEntries) ==
  [m_uSavedReports |->
     IF h.m_uSavedReports = ERASED THEN 0
     ELSE IF h.m_uSavedReports > nMaxEntries THEN nMaxEntries % 256
     ELSE h.m_uSavedReports,
   m_uNextReport |->
     IF h.m_uNextReport >= nMaxEntries
       THEN h.m_uNextReport - nMaxEntries
       ELSE h.m_uNextReport]

SanitizeHeaderNoErased(h, nMaxEntries) ==
  [m_uSavedReports |->
     IF h.m_uSavedReports > nMaxEntries THEN nMaxEntries % 256
     ELSE h.m_uSavedReports,
   m_uNextReport |->
     IF h.m_uNextReport >= nMaxEntries THEN 0 ELSE h.m_uNextReport]

\* A validation that lets a next-report index equal to the size pass.
SanitizeHeaderNextInclusive(h, nMaxEntries) ==
  [m_uSavedReports |->
     IF h.m_uSavedReports = ERASED THEN 0
     ELSE IF h.m_uSavedReports > nMaxEntries THEN nMaxEntries
     ELSE h.m_uSavedReports,
   m_uNextReport |->
     IF h.m_uNextReport > nMaxEntries THEN 0 ELSE h.m_uNextReport]

SanitizeHeader(h, nMaxEntries) ==
  [m_uSavedReports |->
     IF h.m_uSavedReports = ERASED THEN 0
     ELSE IF h.m_uSavedReports > nMaxEntries THEN nMaxEntries % 256
     ELSE h.m_uSavedReports,
   m_uNextReport |->
     IF h.m_uNextReport >= nMaxEntries THEN 0 ELSE h.m_uNextReport]

HeaderOfBytes(bs) == [m_uSavedReports |-> bs[1], m_uNextReport |-> bs[2]]
BytesOfHeader(h) == <<h.m_uSavedReports, h.m_uNextReport>>

LoadHeader(ee) ==
  SanitizeHeader(HeaderOfBytes(ReadBlock(ee, c_nBaseAddress, SIZEOF_HEADER)),
                 c_nMaxEntries)

\* SaveHeader and its pass number uDone + 1.
SaveHeader(ee, rReportHeader) ==
  WriteBlock(ee, c_nBaseAddress, BytesOfHeader(rReportHeader))
SaveHeaderPass(ee, rReportHeader, uDone) ==
  WriteBlockPass(ee, c_nBaseAddress, BytesOfHeader(rReportHeader), uDone)

\* The packed CCrashReport as bytes: the address, then the data word.
BytesOfReport(r) == r.m_auAddress \o ToBytes(r.m_uData)
ReportOfBytes(bs) ==
  [m_auAddress |-> SubSeq(bs, 1, PROGRAM_COUNTER_SIZE),
   m_uData |-> FromBytes(SubSeq(bs, PROGRAM_COUNTER_SIZE + 1, Len(bs)))]

\* A SaveCurrentReport that always writes slot 0.
SaveCurrentReportPassSlotZero(ee, nReportSlot, uDone) ==
  WriteBlockPass(ee, GetAddressForReport(0), BytesOfReport(m_CrashReport), uDone)

\* Pass number uDone + 1 of the WriteBlock of SaveCurrentReport.
SaveCurrentReportPass(ee, nReportSlot, uDone) ==
  WriteBlockPass(ee, GetAddressForReport(nReportSlot),
                 BytesOfReport(m_CrashReport), uDone)

\* Swap of the first and the last address byte.
SwapEnds(a) ==
  [i \in 1..Len(a) |->
     IF i = 1 THEN a[Len(a)] ELSE IF i = Len(a) THEN a[1] ELSE a[i]]

LoadReportNoSwap(ee, nReport) ==
  ReportOfBytes(ReadBlock(ee, GetAddressForReport(nReport), SizeofReport))

LoadReport(ee, nReport) ==
  LET rState ==
        ReportOfBytes(ReadBlock(ee, GetAddressForReport(nReport), SizeofReport))
  IN  [rState EXCEPT !.m_auAddress = SwapEnds(rState.m_auAddress)]

\* ---------------------------------------------------------------- printing
DigitChars ==
  <<"0", "1", "2", "3", "4", "5", "6", "7", "8", "9",
    "A", "B", "C", "D", "E", "F">>

\* print(n, radix): the digits of n, most significant first.
RECURSIVE PrintNumber(_, _)
PrintNumber(n, uRadix) ==
  IF n.hi = 0 /\ n.lo < uRadix
    THEN <<DigitChars[n.lo + 1]>>
    ELSE PrintNumber(DivU32(n, uRadix), uRadix)
           \o <<DigitChars[ModU32(n, uRadix) + 1]>>

\* println(): carriage return, line feed.
println == <<"\r", "\n">>

\* The string literals of Dump, character by character.
ApplicationMonitorText ==
  <<"A", "p", "p", "l", "i", "c", "a", "t", "i", "o", "n", " ", "M", "o",
    "n", "i", "t", "o", "r">>
RuleText ==
  <<"-", "-", "-", "-", "-", "-", "-", "-", "-", "-", "-", "-", "-", "-",
    "-", "-", "-", "-", "-">>
SavedReportsText ==
  <<"S", "a", "v", "e", "d", " ", "r", "e", "p", "o", "r", "t", "s", ":",
    " ">>
NextReportText ==
  <<"N", "e", "x", "t", " ", "r", "e", "p", "o", "r", "t", ":", " ">>
WordAddressText ==
  <<":", " ", "w", "o", "r", "d", "-", "a", "d", "d", "r", "e", "s", "s",
    "=", "0", "x">>
ByteAddressText ==
  <<":", " ", "b", "y", "t", "e", "-", "a", "d", "d", "r", "e", "s", "s",
    "=", "0", "x">>
DataText ==
  <<",", " ", "d", "a", "t", "a", "=", "0", "x">>

PrintValue(pLabel, uValue, uRadix, bNewLine) ==
  pLabel \o PrintNumber(uValue, uRadix)
         \o (IF bNewLine THEN println ELSE <<>>)

\* What Dump prints for one loaded report.
DumpReportLine(uReport, Report) ==
  LET uAddress == FromBytes(Report.m_auAddress)
  IN  PrintNumber(ToU32(uReport), DEC)
        \o PrintValue(WordAddressText, uAddress, HEX, FALSE)
        \o PrintValue(ByteAddressText, TimesTwo(uAddress), HEX, FALSE)
        \o PrintValue(DataText, Report.m_uData, HEX, TRUE)

\* What Dump prints before the reports.
DumpHeaderLines(hdr) ==
  ApplicationMonitorText \o println
    \o RuleText \o println
    \o PrintValue(SavedReportsText, ToU32(hdr.m_uSavedReports), DEC, TRUE)
    \o PrintValue(NextReportText, ToU32(hdr.m_uNextReport), DEC, TRUE)

\* The reports Dump's loop loads, in the order it loads them.
DumpReportsFromNext(ee) ==
  LET hdr == LoadHeader(ee)
  IN  [i \in 1..hdr.m_uSavedReports |->
         LoadReport(ee, (hdr.m_uNextReport + i - 1) % c_nMaxEntries)]

DumpReports(ee) ==
  [i \in 1..LoadHeader(ee).m_uSavedReports |-> LoadReport(ee, i - 1)]

RECURSIVE DumpLines(_, _)
DumpLines(reports, uReport) ==
  IF uReport >= Len(reports)
    THEN <<>>
    ELSE DumpReportLine(uReport, reports[uReport + 1])
           \o DumpLines(reports, uReport + 1)

DumpOutputAlways(ee, bOnlyIfPresent) ==
  DumpHeaderLines(LoadHeader(ee)) \o DumpLines(DumpReports(ee), 0)

DumpOutput(ee, bOnlyIfPresent) ==
  LET hdr == LoadHeader(ee)
  IN  IF ~bOnlyIfPresent \/ hdr.m_uSavedReports # 0
        THEN DumpHeaderLines(hdr) \o DumpLines(DumpReports(ee), 0)
        ELSE <<>>

\* ------------------------------------------------------------------ state
\* The monitor as the static constructor leaves it (a global: zeroed first).
Constructed ==
  [m_auAddress |-> [i \in 1..PROGRAM_COUNTER_SIZE |-> 0], m_uData |-> U32(0, 0)]

NoHeader == [m_uSavedReports |-> 0, m_uNextReport |-> 0]

InHandler ==
  pc \in {"handler_load", "handler_report", "handler_header", "handler_rearm",
          "spin"}

\* The positions of the handler before SaveHeader has ended: a reset here
\* cuts the record short.
WritingHeaderOrReport == {"handler_load", "handler_report", "handler_header"}
Writing == pc \in WritingHeaderOrReport

\* The state of a program started by a power-on reset: globals initialised,
\* constructor run, watchdog off, WDRF clear.
Booted ==
  /\ m_CrashReport = Constructed
  /\ wdtOn = FALSE /\ wdie = FALSE /\ wdtTimeout = 0 /\ wdtCount = 0
  /\ wdrf = FALSE
  /\ pc = "run"
  /\ uByte = 0
  /\ Header = NoHeader
  /\ upStack = <<>>
  /\ sink = <<>>
  /\ dumpArg = "none"
  /\ ppc = "Ready"
  /\ g_nIterations = 0
  /\ g_nEndOfTheWorld = END_OF_THE_WORLD
  /\ sinceAlive = 0
  /\ alive = FALSE
  /\ lastSet = U32(0, 0)
  /\ disarmed = FALSE

Init ==
  /\ c_nBaseAddress = DEFAULT_BASE_ADDRESS
  /\ c_nMaxEntries \in MaxEntriesValues
  /\ PROGRAM_COUNTER_SIZE \in ProgramCounterSizes
  /\ eeprom = <<>>
  /\ Booted
  /\ eepromAtTrap = <<>>
  /\ traps = <<>>
  /\ slotTrap = <<>>
  /\ cutShort = FALSE

\* A step that prints nothing.
Silent == sink' = <<>> /\ dumpArg' = "none"

\* A step that is not one of setup() or loop() of Program.cpp.
Idle == UNCHANGED program

\* ------------------------------------------------------- normal execution
\* wdt_enable(Timeout); WDTCSR |= _BV(WDIE);
EnableWatchdog(Timeout) ==
  /\ pc = "run"
  /\ wdtOn' = TRUE
  /\ wdie' = TRUE
  /\ wdtTimeout' = Timeout
  /\ wdtCount' = 0
  /\ sinceAlive' = 0
  /\ alive' = FALSE
  /\ disarmed' = FALSE
  /\ Silent
  /\ UNCHANGED <<config, eeprom, m_CrashReport, wdrf, pc, uByte, Header,
                 upStack, history, lastSet, eepromAtTrap>>

\* wdt_disable() writes 0 to WDTCSR: WDIE and the prescaler are cleared, and
\* WDE too unless WDRF holds it set.
DisableWatchdog ==
  /\ pc = "run"
  /\ wdtOn' = wdrf
  /\ wdie' = FALSE
  /\ wdtTimeout' = 0
  /\ wdtCount' = 0
  /\ sinceAlive' = 0
  /\ alive' = FALSE
  /\ disarmed' = TRUE
  /\ Silent
  /\ UNCHANGED <<config, eeprom, m_CrashReport, wdrf, pc, uByte, Header,
                 upStack, history, lastSet, eepromAtTrap>>

\* wdt_reset(): the counter starts again.
wdt_reset_missing(count) == count

wdt_reset(count) == 0

IAmAlive ==
  /\ pc = "run"
  /\ wdtCount' = wdt_reset(wdtCount)
  /\ sinceAlive' = 0
  /\ alive' = wdtOn
  /\ Silent
  /\ UNCHANGED <<config, eeprom, m_CrashReport, wdtOn, wdie, wdtTimeout, wdrf,
                 pc, uByte, Header, upStack, history, lastSet, disarmed,
                 eepromAtTrap>>

\* A SetData that the watchdog interrupt does not split.
SetData(uData) ==
  /\ pc = "run"
  /\ m_CrashReport' = [m_CrashReport EXCEPT !.m_uData = uData]
  /\ lastSet' = uData
  /\ Silent
  /\ UNCHANGED <<config, eeprom, watchdog, pc, uByte, Header, upStack,
                 history, sinceAlive, alive, disarmed, eepromAtTrap>>

GetData == m_CrashReport.m_uData

\* m_uData when uDone of the four byte stores of m_uData = uNew have been
\* made on top of uOld, lowest address first or highest address first.
StoredLowFirst(uOld, uNew, uDone) ==
  FromBytes(SubSeq(ToBytes(uNew), 1, uDone)
              \o SubSeq(ToBytes(uOld), uDone + 1, SIZEOF_DATA))
StoredHighFirst(uOld, uNew, uDone) ==
  FromBytes(SubSeq(ToBytes(uOld), 1, SIZEOF_DATA - uDone)
              \o SubSeq(ToBytes(uNew), SIZEOF_DATA - uDone + 1, SIZEOF_DATA))
\* The words m_uData can hold between two byte stores of m_uData = uNew.
TornWords(uOld, uNew) ==
  {StoredLowFirst(uOld, uNew, uDone) : uDone \in 1..(SIZEOF_DATA - 1)}
    \cup {StoredHighFirst(uOld, uNew, uDone) : uDone \in 1..(SIZEOF_DATA - 1)}

\* A Dump that writes the validated header back to the eeprom.
DumpSavesHeader(bOnlyIfPresent) ==
  /\ pc = "run"
  /\ sink' = DumpOutput(eeprom, bOnlyIfPresent)
  /\ dumpArg' = IF bOnlyIfPresent THEN "onlyIfPresent" ELSE "always"
  /\ eeprom' = SaveHeader(eeprom, LoadHeader(eeprom))
  /\ UNCHANGED <<config, m_CrashReport, watchdog, pc, uByte, Header, upStack,
                 history, sinceAlive, alive, lastSet, disarmed, eepromAtTrap>>

\* A Dump that returns: the destination took every character before the
\* watchdog, if it runs, timed out.
Dump(bOnlyIfPresent) ==
  /\ pc = "run"
  /\ sink' = DumpOutput(eeprom, bOnlyIfPresent)
  /\ dumpArg' = IF bOnlyIfPresent THEN "onlyIfPresent" ELSE "always"
  /\ UNCHANGED <<config, eeprom, m_CrashReport, watchdog, pc, uByte, Header,
                 upStack, history, sinceAlive, alive, lastSet, disarmed,
                 eepromAtTrap>>

\* What Dump(rDestination, bOnlyIfPresent) can have printed when the watchdog
\* cuts it: the destination takes its time for every character, and the cut
\* comes after any number of them short of all.
DumpPrinted(bOnlyIfPresent) ==
  LET sOutput == DumpOutput(eeprom, bOnlyIfPresent)
  IN  {SubSeq(sOutput, 1, uPrinted) : uPrinted \in 0..(Len(sOutput) - 1)}

\* ---------------------------------------------------------------- watchdog
\* Time passes in the program or in the endless loop of the handler without
\* the running watchdog timing out. (The time of the handler's other steps
\* is the time of its eeprom writes, WriteInTime.)
Tick ==
  /\ pc \in {"run", "spin"}
  /\ wdtOn
  /\ wdtCount + 1 < TimeoutTicks(wdtTimeout)
  /\ wdtCount' = wdtCount + 1
  /\ sinceAlive' = IF pc = "run" THEN sinceAlive + 1 ELSE sinceAlive
  /\ Silent
  /\ UNCHANGED <<config, eeprom, m_CrashReport, wdtOn, wdie, wdtTimeout, wdrf,
                 pc, uByte, Header, upStack, history, alive, lastSet, disarmed,
                 eepromAtTrap>>

\* The watchdog times out in interrupt mode uTicks ticks from now, while
\* m_uData holds uData and the statement it interrupts has printed uPrinted:
\* the hardware clears WDIE and restarts the counter, ISR(WDT_vect) points
\* upStack at the return address and calls the handler through
\* appMon_asm_gate.
WDT_vectIn(uData, uTicks, uPrinted, sArg) ==
  /\ pc = "run"
  /\ wdtOn /\ wdie
  /\ uTicks >= 1
  /\ wdtCount + uTicks = TimeoutTicks(wdtTimeout)
  /\ \E stack \in StackContents :
       /\ upStack' = stack
       /\ traps' = Append(traps,
                     [addr |-> SubSeq(stack, 1, PROGRAM_COUNTER_SIZE),
                      data |-> uData])
  /\ m_CrashReport' = [m_CrashReport EXCEPT !.m_uData = uData]
  /\ wdie' = FALSE
  /\ wdtCount' = 0
  /\ sinceAlive' = sinceAlive + uTicks
  /\ alive' = FALSE
  /\ pc' = "handler_load"
  /\ uByte' = 0
  /\ eepromAtTrap' = eeprom
  /\ sink' = uPrinted
  /\ dumpArg' = sArg
  /\ UNCHANGED <<config, eeprom, wdtOn, wdtTimeout, wdrf, Header, slotTrap,
                 cutShort, lastSet, disarmed>>

\* The interrupt on the tick that ends the period, m_uData holding uData.
WDT_vectWith(uData) == WDT_vectIn(uData, 1, <<>>, "none")

\* The interrupt between two statements of the program.
WDT_vect == WDT_vectWith(m_CrashReport.m_uData)

\* The interrupt inside Dump: the destination is still taking characters
\* when the period ends, and Dump never returns.
DumpInterrupted(bOnlyIfPresent) ==
  \E sPrinted \in DumpPrinted(bOnlyIfPresent) :
    WDT_vectIn(m_CrashReport.m_uData, TimeoutTicks(wdtTimeout) - wdtCount,
               sPrinted, "cut")

\* The interrupt inside SetData(uData), between two of the byte stores of
\* m_CrashReport.m_uData = uData: the call never completes.
SetDataInterrupted(uData) ==
  \E uTorn \in TornWords(m_CrashReport.m_uData, uData) : WDT_vectWith(uTorn)

\* The eeprom writes the handler has made since the interrupt.
HandlerWrites == IF pc = "handler_header" THEN SizeofReport + uByte ELSE uByte

\* The next eeprom write of the handler ends before the watchdog period that
\* the interrupt started.
WriteInTime ==
  (HandlerWrites + 1) * EEPROM_WRITE_US
    < (TimeoutTicks(wdtTimeout) - wdtCount) * TICK_MS * 1000

\* WatchdogInterruptHandler: LoadHeader and the memcpy of the address.
HandlerLoad ==
  /\ pc = "handler_load"
  /\ Header' = LoadHeader(eeprom)
  /\ m_CrashReport' =
       [m_CrashReport EXCEPT
          !.m_auAddress = SubSeq(upStack, 1, PROGRAM_COUNTER_SIZE)]
  /\ pc' = "handler_report"
  /\ Silent
  /\ UNCHANGED <<config, eeprom, watchdog, uByte, upStack, history,
                 sinceAlive, alive, lastSet, disarmed, eepromAtTrap>>

\* "Update header for next time."
UpdateHeader(h) ==
  LET next == (h.m_uNextReport + 1) % 256
  IN  IF next >= c_nMaxEntries
        THEN [m_uSavedReports |-> h.m_uSavedReports, m_uNextReport |-> 0]
        ELSE [m_uSavedReports |-> (h.m_uSavedReports + 1) % 256,
              m_uNextReport |-> next]

\* A handler that saves the updated header before the report.
HandlerSavesHeaderFirst ==
  /\ pc = "handler_report"
  /\ WriteInTime
  /\ eeprom' = SaveHeader(SaveCurrentReportPass(eeprom, Header.m_uNextReport, uByte),
                          UpdateHeader(Header))
  /\ IF uByte + 1 = SizeofReport
       THEN /\ pc' = "handler_header"
            /\ uByte' = 0
            /\ slotTrap' = (Header.m_uNextReport :> Len(traps)) @@ slotTrap
       ELSE /\ pc' = pc
            /\ uByte' = uByte + 1
            /\ UNCHANGED slotTrap
  /\ Silent
  /\ UNCHANGED <<config, m_CrashReport, watchdog, Header, upStack, traps,
                 cutShort, sinceAlive, alive, lastSet, disarmed, eepromAtTrap>>

\* WatchdogInterruptHandler: one pass of the loop of WriteBlock in
\* SaveCurrentReport(Header.m_uNextReport); the last pass ends the call.
HandlerSaveReport ==
  /\ pc = "handler_report"
  /\ WriteInTime
  /\ eeprom' = SaveCurrentReportPass(eeprom, Header.m_uNextReport, uByte)
  /\ IF uByte + 1 = SizeofReport
       THEN /\ pc' = "handler_header"
            /\ uByte' = 0
            /\ slotTrap' = (Header.m_uNextReport :> Len(traps)) @@ slotTrap
       ELSE /\ pc' = pc
            /\ uByte' = uByte + 1
            /\ UNCHANGED slotTrap
  /\ Silent
  /\ UNCHANGED <<config, m_CrashReport, watchdog, Header, upStack, traps,
                 cutShort, sinceAlive, alive, lastSet, disarmed, eepromAtTrap>>

\* WatchdogInterruptHandler: the header update, made before the first pass,
\* and one pass of the loop of WriteBlock in SaveHeader(Header).
HandlerSaveHeader ==
  /\ pc = "handler_header"
  /\ WriteInTime
  /\ Header' = IF uByte = 0 THEN UpdateHeader(Header) ELSE Header
  /\ eeprom' = SaveHeaderPass(eeprom, Header', uByte)
  /\ IF uByte + 1 = SIZEOF_HEADER
       THEN pc' = "handler_rearm" /\ uByte' = 0
       ELSE pc' = pc /\ uByte' = uByte + 1
  /\ Silent
  /\ UNCHANGED <<config, m_CrashReport, watchdog, upStack, history,
                 sinceAlive, alive, lastSet, disarmed, eepromAtTrap>>

\* Where the handler goes after wdt_enable(WDTO_120MS): while (true);
AfterRearmReturns == "run"

AfterRearm == "spin"

\* WatchdogInterruptHandler: wdt_enable(WDTO_120MS), then the endless loop.
HandlerRearm ==
  /\ pc = "handler_rearm"
  /\ wdtOn' = TRUE
  /\ wdie' = FALSE
  /\ wdtTimeout' = WDTO_120MS
  /\ wdtCount' = 0
  /\ pc' = AfterRearm
  /\ Silent
  /\ UNCHANGED <<config, eeprom, m_CrashReport, wdrf, uByte, Header, upStack,
                 history, sinceAlive, alive, lastSet, disarmed, eepromAtTrap>>

\* The micro restarts after a watchdog reset, the statement that the reset
\* cut having printed uPrinted. The reset sets WDRF; the program starts
\* either with WDRF set and the watchdog running in reset mode with the
\* shortest period, or after a boot loader has cleared WDRF and turned the
\* watchdog off.
Restart(uPrinted, sArg) ==
  /\ \E bBootClearsWdrf \in BOOLEAN :
       /\ wdrf' = ~bBootClearsWdrf
       /\ wdtOn' = ~bBootClearsWdrf
  /\ wdie' = FALSE /\ wdtTimeout' = 0 /\ wdtCount' = 0
  /\ m_CrashReport' = Constructed
  /\ pc' = "run"
  /\ uByte' = 0
  /\ Header' = NoHeader
  /\ upStack' = <<>>
  /\ ppc' = "Ready"
  /\ g_nIterations' = 0
  /\ g_nEndOfTheWorld' = END_OF_THE_WORLD
  /\ lastSet' = U32(0, 0)
  /\ eepromAtTrap' = <<>>
  /\ disarmed' = FALSE
  /\ sinceAlive' = 0
  /\ alive' = FALSE
  /\ cutShort' = (cutShort \/ Writing)
  /\ sink' = uPrinted
  /\ dumpArg' = sArg
  /\ UNCHANGED <<config, eeprom, traps, slotTrap>>

\* The watchdog times out in reset mode: in the program or in the endless
\* loop of the handler on the tick that ends the period, in the handler's
\* writes during the write that the period ends in.
WatchdogReset ==
  /\ wdtOn /\ ~wdie
  /\ IF pc \in {"handler_report", "handler_header"}
       THEN ~WriteInTime
       ELSE pc \in {"run", "spin"} /\ wdtCount + 1 = TimeoutTicks(wdtTimeout)
  /\ Restart(<<>>, "none")

\* The reset inside Dump, the watchdog running in reset mode: the
\* destination is still taking characters when the period ends.
DumpReset(bOnlyIfPresent) ==
  /\ pc = "run"
  /\ wdtOn /\ ~wdie
  /\ \E sPrinted \in DumpPrinted(bOnlyIfPresent) :
       Restart(sPrinted, "cut")

\* ------------------------------------------------- a client of the monitor
\* A client calls the public functions in any order and at any time, with
\* sample arguments. The watchdog, when it runs, times out between two calls
\* or inside SetData or Dump; the handler has the time to save its report.
Next ==
  \/ \E Timeout \in ClientTimeouts : EnableWatchdog(Timeout) /\ Idle
  \/ DisableWatchdog /\ Idle
  \/ IAmAlive /\ Idle
  \/ \E uData \in UserDataValues : SetData(uData) /\ Idle
  \/ \E uData \in UserDataValues :
       Len(traps) < CallTraps /\ SetDataInterrupted(uData) /\ Idle
  \/ \E bOnlyIfPresent \in BOOLEAN : Dump(bOnlyIfPresent) /\ Idle
  \/ \E bOnlyIfPresent \in BOOLEAN :
       Len(traps) < CallTraps /\ DumpInterrupted(bOnlyIfPresent) /\ Idle
  \/ \E bOnlyIfPresent \in BOOLEAN :
       Len(traps) <= CallTraps /\ DumpReset(bOnlyIfPresent)
  \/ Tick /\ Idle
  \/ Len(traps) < MaxTraps /\ WDT_vect /\ Idle
  \/ HandlerLoad /\ Idle
  \/ HandlerSaveReport /\ Idle
  \/ HandlerSaveHeader /\ Idle
  \/ HandlerRearm /\ Idle
  \/ WatchdogReset

Spec == Init /\ [][Next]_vars

\* ------------------------------------------- resets that cut the handler
\* Watchdog interrupts delivered in one behaviour of CutSpec.
CutTraps == 2

CutInit ==
  /\ c_nBaseAddress = DEFAULT_BASE_ADDRESS
  /\ c_nMaxEntries \in MaxEntriesValues
  /\ PROGRAM_COUNTER_SIZE \in ProgramCounterSizes
  /\ eeprom = <<>>
  /\ Booted
  /\ eepromAtTrap = <<>>
  /\ traps = <<>>
  /\ slotTrap = <<>>
  /\ cutShort = FALSE

\* A client that sets the data word and arms the watchdog, with the time-out
\* that ends while the handler writes its report or with the one the handler
\* outlasts; the same code hangs every time.
CutNext ==
  \/ \E Timeout \in ArmTimeouts : EnableWatchdog(Timeout) /\ Idle
  \/ \E uData \in UserDataValues : SetData(uData) /\ Idle
  \/ \E uData \in UserDataValues :
       Len(traps) < CallTraps /\ SetDataInterrupted(uData)
         /\ upStack' = <<18, 52, 86>> /\ Idle
  \/ Tick /\ Idle
  \/ Len(traps) < CutTraps /\ WDT_vect /\ upStack' = <<18, 52, 86>> /\ Idle
  \/ HandlerLoad /\ Idle
  \/ HandlerSaveReport /\ Idle
  \/ HandlerSaveHeader /\ Idle
  \/ HandlerRearm /\ Idle
  \/ WatchdogReset

CutSpec == CutInit /\ [][CutNext]_vars

\* The handler's steps always get to run, time passes and an expired watchdog
\* acts: the CPU and the watchdog oscillator do not stop.
FairSpec ==
  /\ CutSpec
  /\ WF_vars(Tick /\ Idle)
  /\ WF_vars(WatchdogReset)
  /\ WF_vars((HandlerLoad \/ HandlerSaveReport \/ HandlerSaveHeader
                \/ HandlerRearm) /\ Idle)

\* ------------------------------------------- interrupts that split SetData
\* Arguments of SetData whose bytes show which stores were made: 0x000000FF
\* and 0x00000100 besides the samples.
RaceDataValues == UserDataValues \cup {U32(0, 255), U32(0, 256)}

\* A client that sets the data word while the armed watchdog times out: the
\* first interrupt falls between two calls or inside a call.
RaceNext ==
  \/ \E Timeout \in ArmTimeouts : EnableWatchdog(Timeout) /\ Idle
  \/ \E uData \in RaceDataValues : SetData(uData) /\ Idle
  \/ Tick /\ Idle
  \/ traps = <<>> /\ WDT_vect /\ upStack' = <<18, 52, 86>> /\ Idle
  \/ \E uData \in RaceDataValues :
       traps = <<>> /\ SetDataInterrupted(uData) /\ upStack' = <<18, 52, 86>>
         /\ Idle
  \/ HandlerLoad /\ Idle
  \/ HandlerSaveReport /\ Idle
  \/ HandlerSaveHeader /\ Idle
  \/ HandlerRearm /\ Idle
  \/ WatchdogReset

RaceSpec == CutInit /\ [][RaceNext]_vars

\* ------------------------------------------------- every time-out of ETimeout
TimeoutInit ==
  /\ c_nBaseAddress = DEFAULT_BASE_ADDRESS
  /\ c_nMaxEntries = DEFAULT_ENTRIES
  /\ PROGRAM_COUNTER_SIZE \in ProgramCounterSizes
  /\ eeprom = <<>>
  /\ Booted
  /\ eepromAtTrap = <<>>
  /\ traps = <<>>
  /\ slotTrap = <<>>
  /\ cutShort = FALSE

\* A client that arms the watchdog with any time-out and calls IAmAlive or
\* lets time pass; the first time-out without a heartbeat runs the handler.
TimeoutNext ==
  \/ \E Timeout \in ETimeout : EnableWatchdog(Timeout) /\ Idle
  \/ IAmAlive /\ Idle
  \/ Tick /\ Idle
  \/ traps = <<>> /\ WDT_vect /\ upStack' = <<18, 52, 86>> /\ Idle
  \/ HandlerLoad /\ Idle
  \/ HandlerSaveReport /\ Idle
  \/ HandlerSaveHeader /\ Idle
  \/ HandlerRearm /\ Idle
  \/ WatchdogReset

TimeoutSpec == TimeoutInit /\ [][TimeoutNext]_vars

\* ------------------------------------------------------------ Program.cpp
\* Ticks of the two delay(200) of one pass of loop().
LoopTicks == (2 * DELAY_MS) \div TICK_MS
\* Watchdog interrupts of one behaviour of ProgramSpec: enough to fill the
\* log of DEFAULT_ENTRIES slots and overwrite its first slot.
ProgramTraps == DEFAULT_ENTRIES + 1

\* setup(): Serial.println("Ready");
ReadyText ==
  <<"R", "e", "a", "d", "y">>
\* setup(): Serial.println("Hello World!");
HelloWorldText ==
  <<"H", "e", "l", "l", "o", " ", "W", "o", "r", "l", "d", "!">>
\* loop(): Serial.println("The end is nigh!!!");
EndIsNighText ==
  <<"T", "h", "e", " ", "e", "n", "d", " ", "i", "s", " ", "n", "i", "g",
    "h", "!", "!", "!">>
\* loop(): Serial.println("The end is here. Goodbye cruel world.");
EndIsHereText ==
  <<"T", "h", "e", " ", "e", "n", "d", " ", "i", "s", " ", "h", "e", "r",
    "e", ".", " ", "G", "o", "o", "d", "b", "y", "e", " ", "c", "r", "u",
    "e", "l", " ", "w", "o", "r", "l", "d", ".">>

\* Serial.println(sText) of Program.cpp: Serial is the destination that
\* setup() hands to Dump.
Serial_println(sText) ==
  /\ pc = "run"
  /\ sink' = sText \o println
  /\ dumpArg' = "none"
  /\ UNCHANGED <<config, eeprom, m_CrashReport, watchdog, pc, uByte, Header,
                 upStack, history, sinceAlive, alive, lastSet, disarmed,
                 eepromAtTrap>>

\* setup(): Serial.println("Ready");
setup_Ready ==
  /\ ppc = "Ready"
  /\ Serial_println(ReadyText)
  /\ ppc' = "Dump"
  /\ UNCHANGED <<g_nIterations, g_nEndOfTheWorld>>

\* setup(): ApplicationMonitor.Dump(Serial);
setup_Dump ==
  /\ ppc = "Dump"
  /\ Dump(TRUE)
  /\ ppc' = "EnableWatchdog"
  /\ UNCHANGED <<g_nIterations, g_nEndOfTheWorld>>

\* setup(): the watchdog, left running by a watchdog reset, resets the micro
\* while Dump(Serial) waits for Serial.
setup_DumpReset ==
  /\ ppc = "Dump"
  /\ DumpReset(TRUE)

\* setup(): ApplicationMonitor.EnableWatchdog(Timeout_4s);
setup_EnableWatchdog ==
  /\ ppc = "EnableWatchdog"
  /\ EnableWatchdog(Timeout_4s)
  /\ ppc' = "HelloWorld"
  /\ UNCHANGED <<g_nIterations, g_nEndOfTheWorld>>

\* setup(): Serial.println("Hello World!");
setup_HelloWorld ==
  /\ ppc = "HelloWorld"
  /\ Serial_println(HelloWorldText)
  /\ ppc' = "IAmAlive"
  /\ UNCHANGED <<g_nIterations, g_nEndOfTheWorld>>

\* loop(): ApplicationMonitor.IAmAlive();
loop_IAmAlive ==
  /\ ppc = "IAmAlive"
  /\ IAmAlive
  /\ ppc' = "SetData"
  /\ UNCHANGED <<g_nIterations, g_nEndOfTheWorld>>

\* loop(): ApplicationMonitor.SetData(g_nIterations++);
loop_SetData ==
  /\ ppc = "SetData"
  /\ SetData(ToU32(g_nIterations))
  /\ g_nIterations' = g_nIterations + 1
  /\ ppc' = "println"
  /\ UNCHANGED g_nEndOfTheWorld

\* loop(): Serial.println("The end is nigh!!!");
loop_println ==
  /\ ppc = "println"
  /\ Serial_println(EndIsNighText)
  /\ ppc' = "delay"
  /\ UNCHANGED <<g_nIterations, g_nEndOfTheWorld>>

\* loop(): the two delay(200). The watchdog counter, which IAmAlive
\* restarted at the top of the pass, tells the time since.
loop_delay ==
  /\ ppc = "delay"
  /\ pc = "run"
  /\ wdtCount < LoopTicks
  /\ Tick
  /\ Idle

\* loop(): if (g_nEndOfTheWorld == 0) { Serial.println("The end is here.
\* Goodbye cruel world."); while(1); } --g_nEndOfTheWorld;
loop_EndOfTheWorld ==
  /\ ppc = "delay"
  /\ pc = "run"
  /\ wdtCount = LoopTicks
  /\ IF g_nEndOfTheWorld = 0
       THEN /\ sink' = EndIsHereText \o println
            /\ dumpArg' = "none"
            /\ ppc' = "while(1)"
            /\ UNCHANGED g_nEndOfTheWorld
       ELSE /\ Silent
            /\ ppc' = "IAmAlive"
            /\ g_nEndOfTheWorld' = g_nEndOfTheWorld - 1
  /\ UNCHANGED <<config, eeprom, m_CrashReport, watchdog, pc, uByte, Header,
                 upStack, g_nIterations, history, sinceAlive, alive, lastSet,
                 disarmed, eepromAtTrap>>

\* loop(): while(1); until the watchdog timer kicks in.
loop_while ==
  /\ ppc = "while(1)"
  /\ pc = "run"
  /\ Tick
  /\ Idle

ProgramInit ==
  /\ c_nBaseAddress = DEFAULT_BASE_ADDRESS
  /\ c_nMaxEntries = DEFAULT_ENTRIES
  /\ PROGRAM_COUNTER_SIZE \in ProgramCounterSizes
  /\ eeprom = <<>>
  /\ Booted
  /\ eepromAtTrap = <<>>
  /\ traps = <<>>
  /\ slotTrap = <<>>
  /\ cutShort = FALSE

\* The run of Program.cpp: setup() with its prints to Serial, sixteen passes
\* of loop(), each with its print, the last print and the endless loop, the
\* watchdog interrupt after four seconds, the handler (whose writes end long
\* before the next four seconds do), the reset, and again.
ProgramNext ==
  \/ setup_Ready
  \/ setup_Dump
  \/ setup_DumpReset
  \/ setup_EnableWatchdog
  \/ setup_HelloWorld
  \/ loop_IAmAlive
  \/ loop_SetData
  \/ loop_println
  \/ loop_delay
  \/ loop_EndOfTheWorld
  \/ loop_while
  \/ Len(traps) < ProgramTraps /\ WDT_vect /\ upStack' = <<18, 52, 86>> /\ Idle
  \/ HandlerLoad /\ Idle
  \/ HandlerSaveReport /\ Idle
  \/ HandlerSaveHeader /\ Idle
  \/ HandlerRearm /\ Idle
  \/ pc = "spin" /\ Tick /\ Idle
  \/ WatchdogReset

ProgramSpec == ProgramInit /\ [][ProgramNext]_vars

\* ------------------------------------------- headers the eeprom may hold
\* Header bytes around the boundaries of the validation in LoadHeader.
HeaderByteSamples(nMaxEntries) ==
  {0, 1, nMaxEntries - 1, nMaxEntries, nMaxEntries + 1, UINT8_MAX - 1, UINT8_MAX}
    \cap (0..UINT8_MAX)

\* A program started on an eeprom whose header bytes hold anything.
HeaderInit ==
  /\ c_nBaseAddress = DEFAULT_BASE_ADDRESS
  /\ c_nMaxEntries \in 1..UINT8_MAX
  /\ PROGRAM_COUNTER_SIZE = 2
  /\ \E uSaved \in HeaderByteSamples(c_nMaxEntries) :
       \E uNext \in HeaderByteSamples(c_nMaxEntries) :
         eeprom = WriteBlock(<<>>, c_nBaseAddress, <<uSaved, uNext>>)
  /\ Booted
  /\ eepromAtTrap = <<>>
  /\ traps = <<>>
  /\ slotTrap = <<>>
  /\ cutShort = FALSE

\* ------------------------------------------------ regions of any position
\* Base addresses the constructor may be given.
BaseAddressSamples == {0, 1, DEFAULT_BASE_ADDRESS, 2 * DEFAULT_BASE_ADDRESS}

\* A program constructed with any base address and any number of entries on
\* an erased eeprom.
LayoutInit ==
  /\ c_nBaseAddress \in BaseAddressSamples
  /\ c_nMaxEntries \in 1..UINT8_MAX
  /\ PROGRAM_COUNTER_SIZE \in ProgramCounterSizes
  /\ eeprom = <<>>
  /\ Booted
  /\ eepromAtTrap = <<>>
  /\ traps = <<>>
  /\ slotTrap = <<>>
  /\ cutShort = FALSE

\* The watchdog is armed with a time-out that the handler outlasts and times
\* out once: the handler writes report and header, and the reset follows.
LayoutNext ==
  \/ EnableWatchdog(Timeout_30ms) /\ Idle
  \/ Tick /\ Idle
  \/ traps = <<>> /\ WDT_vect /\ upStack' = <<18, 52, 86>> /\ Idle
  \/ HandlerLoad /\ Idle
  \/ HandlerSaveReport /\ Idle
  \/ HandlerSaveHeader /\ Idle
  \/ HandlerRearm /\ Idle
  \/ WatchdogReset

LayoutSpec == LayoutInit /\ [][LayoutNext]_vars

\* ---------------------------------------------------- long runs of traps
\* Logs of a few slots and logs whose size is next to the largest value the
\* 8-bit header fields hold.
LongEntries == {1, 2, 3, UINT8_MAX - 2, UINT8_MAX - 1, UINT8_MAX}
\* Enough traps for savedReports of the largest log to pass UINT8_MAX.
LongTraps == UINT8_MAX + 2

LongInit ==
  /\ c_nBaseAddress = DEFAULT_BASE_ADDRESS
  /\ c_nMaxEntries \in LongEntries
  /\ PROGRAM_COUNTER_SIZE = 2
  /\ eeprom = <<>>
  /\ Booted
  /\ eepromAtTrap = <<>>
  /\ traps = <<>>
  /\ slotTrap = <<>>
  /\ cutShort = FALSE

\* A program that hangs again and again: it arms the watchdog with a
\* time-out that the handler outlasts, the same code hangs, the handler runs
\* to its end and the re-armed watchdog resets the micro.
LongNext ==
  \/ EnableWatchdog(Timeout_30ms) /\ Idle
  \/ Tick /\ Idle
  \/ Len(traps) < LongTraps /\ WDT_vect /\ upStack' = <<18, 52, 86>> /\ Idle
  \/ HandlerLoad /\ Idle
  \/ HandlerSaveReport /\ Idle
  \/ HandlerSaveHeader /\ Idle
  \/ HandlerRearm /\ Idle
  \/ WatchdogReset

LongSpec == LongInit /\ [][LongNext]_vars

\* ------------------------------------------- a trap on any stored header
\* One trap on an eeprom whose header bytes hold anything.
GarbageSpec == HeaderInit /\ [][LayoutNext]_vars

\* ================================================================ claims
Loaded == LoadHeader(eeprom)
\* The header bytes as the eeprom holds them.
Stored == HeaderOfBytes(ReadBlock(eeprom, c_nBaseAddress, SIZEOF_HEADER))
nTraps == Len(traps)
\* Every trap delivered so far ran its handler to the end and was followed by
\* a reset.
AfterTraps == pc = "run" /\ ~cutShort
\* The step just taken was a Dump that returned.
DumpReturned == dumpArg \in {"onlyIfPresent", "always"}
\* A watchdog reset, between two statements or inside Dump.
Reset == WatchdogReset \/ \E bOnlyIfPresent \in BOOLEAN : DumpReset(bOnlyIfPresent)

Reverse(a) == [i \in 1..Len(a) |-> a[Len(a) + 1 - i]]
\* The report of a trap as the load path returns it.
ReportOfTrap(t) == [m_auAddress |-> Reverse(t.addr), m_uData |-> t.data]
\* The number of the last trap that wrote slot nSlot (0 if none did).
RECURSIVE LatestTrapOfSlot(_, _)
LatestTrapOfSlot(nSlot, n) ==
  IF n = 0 THEN 0
  ELSE IF (n - 1) % c_nMaxEntries = nSlot THEN n
  ELSE LatestTrapOfSlot(nSlot, n - 1)

\* C1: from an erased region, after k completed traps the loaded header has
\* savedReports = min(k, maxEntries).
C1_SavedReportsIsMin ==
  AfterTraps => Loaded.m_uSavedReports = Min(nTraps, c_nMaxEntries)

\* C2: from an erased region, after k >= 1 completed traps the loaded header
\* has nextReportIndex = k mod maxEntries and slot (k-1) mod maxEntries holds
\* the record of the k-th trap: its captured address bytes and the userData
\* in effect when it fired.
C2_NextIndexAndLatestSlot ==
  (AfterTraps /\ nTraps >= 1) =>
    /\ Loaded.m_uNextReport = nTraps % c_nMaxEntries
    /\ ReadBlock(eeprom,
                 c_nBaseAddress + SIZEOF_HEADER
                   + ((nTraps - 1) % c_nMaxEntries) * SizeofReport,
                 SizeofReport)
         = traps[nTraps].addr \o ToBytes(traps[nTraps].data)

\* The log of two slots has wrapped: the third trap overwrote slot 0.
C2_Witness ==
  /\ AfterTraps /\ c_nMaxEntries = 2 /\ nTraps = 3
  /\ traps[3] # traps[1]

\* C3: the set of reports Dump enumerates is exactly the records of the most
\* recent min(k, maxEntries) traps.
C3_EnumeratesMostRecent ==
  AfterTraps =>
    {DumpReports(eeprom)[i] : i \in 1..Len(DumpReports(eeprom))}
      = {ReportOfTrap(traps[j]) :
           j \in (nTraps - Min(nTraps, c_nMaxEntries) + 1)..nTraps}

\* C4 as claimed: Dump produces the reports in insertion order, the oldest
\* surviving report first and the most recent last, also after the log has
\* wrapped.
C4_InsertionOrder ==
  AfterTraps =>
    \A i, j \in 1..Len(DumpReports(eeprom)) :
      i < j => slotTrap[i - 1] < slotTrap[j - 1]

\* C4 as amended: Dump reads back exactly savedReports slots and produces
\* them in ascending slot order; slot i holds the record of the latest trap t
\* with (t-1) mod maxEntries = i, which is insertion order as long as no slot
\* has been overwritten (k <= maxEntries).
C4_SlotOrder ==
  AfterTraps =>
    LET reports == DumpReports(eeprom)
        expected == [i \in 1..Loaded.m_uSavedReports |->
                       ReportOfTrap(traps[LatestTrapOfSlot(i - 1, nTraps)])]
    IN  /\ reports = expected
        /\ nTraps <= c_nMaxEntries =>
             \A i \in 1..Len(reports) : reports[i] = ReportOfTrap(traps[i])
        /\ (DumpReturned /\ Loaded.m_uSavedReports # 0) =>
             sink = DumpHeaderLines(Loaded) \o DumpLines(expected, 0)

\* Dump has printed a wrapped log whose slot 0 holds the newest report.
C4_Witness ==
  /\ AfterTraps /\ c_nMaxEntries = 2 /\ nTraps = 3
  /\ DumpReturned /\ sink # <<>>
  /\ traps[3] # traps[2]

\* Address byte sequences and data words for the round trip.
RoundTripBytes == {0, 18, 52, 128, 255}
RoundTripAddresses ==
  {a \in [1..PROGRAM_COUNTER_SIZE -> RoundTripBytes] : TRUE}
RoundTripHalves == {0, 1, 47806, 51966, 65535}
RoundTripData == {U32(hi, lo) : hi \in RoundTripHalves, lo \in RoundTripHalves}

\* C7: a report written by the handler and read back by LoadReport has the
\* userData that was set and the captured address bytes reversed (12 34 reads
\* back as 0x1234); the first trap on an erased region of 10 slots leaves
\* savedReports = 1 and nextReportIndex = 1.
C7_RoundTrip ==
  (AfterTraps /\ nTraps >= 1) =>
    LET last == traps[nTraps]
        read == LoadReport(eeprom, (nTraps - 1) % c_nMaxEntries)
    IN  /\ read.m_uData = last.data
        /\ read.m_auAddress = Reverse(last.addr)
        /\ last.addr = <<18, 52>> => FromBytes(read.m_auAddress) = U32(0, 4660)
        /\ (nTraps = 1 /\ c_nMaxEntries = DEFAULT_ENTRIES) =>
             Loaded = [m_uSavedReports |-> 1, m_uNextReport |-> 1]
        /\ (nTraps = 1 /\ ~wdtOn /\ dumpArg = "none") =>
             \A a \in RoundTripAddresses, d \in RoundTripData :
               LoadReport(
                 WriteBlock(eeprom, GetAddressForReport(0),
                            BytesOfReport([m_auAddress |-> a, m_uData |-> d])),
                 0) = [m_auAddress |-> Reverse(a), m_uData |-> d]

\* The scenario of the specification: 12 34 captured with 0xCAFEBABE set.
C7_Witness ==
  /\ AfterTraps /\ nTraps = 1 /\ c_nMaxEntries = DEFAULT_ENTRIES
  /\ PROGRAM_COUNTER_SIZE = 2
  /\ traps[1] = [addr |-> <<18, 52>>, data |-> U32(51966, 47806)]
  /\ LoadReport(eeprom, 0).m_uData = U32(51966, 47806)

\* C5: once the handler is entered the program never goes back to normal
\* execution before a reset (the only step that leaves the handler is the
\* watchdog reset), the watchdog stays on in reset mode (after the handler's
\* wdt_enable with the 120 ms time-out), and the reset follows, whether it
\* cuts the handler's writes or comes after them.
C5_HandlerEndsInReset ==
  /\ [][InHandler => (InHandler' \/ WatchdogReset)]_vars
  /\ [](InHandler => (wdtOn /\ ~wdie))
  /\ [](pc = "spin" => wdtTimeout = WDTO_120MS)
  /\ (InHandler ~> ~InHandler)

\* The handler has saved the report and the header and waits for the reset,
\* after a reset cut the handler of the trap before.
C5_Witness ==
  /\ pc = "spin" /\ cutShort /\ wdtCount > 0
  /\ nTraps = 2

\* C6: the handler is entered only when a whole time-out has passed since
\* the last IAmAlive (or since EnableWatchdog), and as long as the handler is
\* not entered no eeprom byte changes.
C6_TimelyHeartbeatsNoTrap ==
  /\ [][(~InHandler /\ InHandler') =>
          sinceAlive' >= TimeoutTicks(wdtTimeout)]_vars
  /\ [][(~InHandler /\ ~InHandler') => eeprom' = eeprom]_vars

\* Armed with the four seconds of Program.cpp, a heartbeat restarted the
\* counter and all but one tick of the time-out have passed since without a
\* trap.
C6_Witness ==
  /\ pc = "run" /\ wdtOn /\ wdie /\ alive
  /\ wdtTimeout = Timeout_4s
  /\ sinceAlive = TimeoutTicks(Timeout_4s) - 1
  /\ nTraps = 0 /\ eeprom = <<>>

\* What C8 says LoadHeader returns for the stored bytes uSaved, uNext.
C8_Holds(h, uSaved, uNext) ==
  /\ uSaved = ERASED => h.m_uSavedReports = 0
  /\ (uSaved # ERASED /\ uSaved > c_nMaxEntries) =>
       h.m_uSavedReports = c_nMaxEntries
  /\ (uSaved # ERASED /\ uSaved <= c_nMaxEntries) => h.m_uSavedReports = uSaved
  /\ uNext >= c_nMaxEntries => h.m_uNextReport = 0
  /\ uNext < c_nMaxEntries => h.m_uNextReport = uNext
  /\ 0 <= h.m_uSavedReports /\ h.m_uSavedReports <= c_nMaxEntries
  /\ 0 <= h.m_uNextReport /\ h.m_uNextReport < c_nMaxEntries

\* The states in which the claims about every header byte are evaluated:
\* one per value of c_nMaxEntries.
AllBytesHere ==
  /\ pc = "run" /\ ~wdtOn /\ dumpArg = "none"
  /\ Stored = [m_uSavedReports |-> ERASED, m_uNextReport |-> ERASED]

\* Every value of each header byte, with the other byte at every boundary of
\* the validation (LoadHeader validates the two bytes separately).
HeaderBytePairs ==
  ((0..UINT8_MAX) \X HeaderByteSamples(c_nMaxEntries))
    \cup (HeaderByteSamples(c_nMaxEntries) \X (0..UINT8_MAX))

\* C8: for all stored header bytes and maxEntries in 1..255 the loaded
\* savedReports is 0 for 0xFF, maxEntries for a byte above maxEntries and the
\* byte itself otherwise; nextReportIndex is 0 for a byte >= maxEntries and
\* the byte itself otherwise; so both are in range.
C8_LoadHeaderSanitizes ==
  /\ pc = "handler_report" =>
       C8_Holds(Header, Stored.m_uSavedReports, Stored.m_uNextReport)
  /\ AllBytesHere =>
       \A b \in HeaderBytePairs :
         C8_Holds(LoadHeader(WriteBlock(eeprom, c_nBaseAddress, b)), b[1], b[2])

\* The handler has loaded a header whose two bytes were both out of range.
C8_Witness ==
  /\ pc = "handler_report"
  /\ Stored.m_uSavedReports # ERASED
  /\ Stored.m_uSavedReports > c_nMaxEntries
  /\ Stored.m_uNextReport >= c_nMaxEntries
  /\ Header = [m_uSavedReports |-> c_nMaxEntries, m_uNextReport |-> 0]

\* C9: the validation of LoadHeader applied to an already validated header
\* changes nothing.
C9_SanitizeIdempotent ==
  /\ pc = "handler_report" =>
       /\ SanitizeHeader(Header, c_nMaxEntries) = Header
       /\ LoadHeader(SaveHeader(eeprom, Header)) = Header
  /\ AllBytesHere =>
       \A b \in HeaderBytePairs :
         LET once == SanitizeHeader(HeaderOfBytes(b), c_nMaxEntries)
         IN  SanitizeHeader(once, c_nMaxEntries) = once

\* The handler has loaded a header that the validation changed.
C9_Witness ==
  /\ pc = "handler_report"
  /\ Header # Stored
  /\ Stored.m_uNextReport > c_nMaxEntries

\* No cell of the eeprom holds anything but 0xFF.
Erased == \A a \in DOMAIN eeprom : eeprom[a] = ERASED

\* C10: on an erased region Dump enumerates no report; when the loaded
\* savedReports is 0 and bOnlyIfPresent is set Dump prints nothing; with
\* bOnlyIfPresent clear it prints the title and the two header counters.
C10_EmptyLogDump ==
  /\ Erased => (DumpReports(eeprom) = <<>> /\ Loaded.m_uSavedReports = 0)
  /\ (dumpArg = "onlyIfPresent" /\ Loaded.m_uSavedReports = 0) => sink = <<>>
  /\ dumpArg = "always" =>
       LET head ==
             ApplicationMonitorText \o <<"\r", "\n">>
               \o RuleText \o <<"\r", "\n">>
               \o SavedReportsText
               \o PrintNumber(ToU32(Loaded.m_uSavedReports), DEC)
               \o <<"\r", "\n">>
               \o NextReportText
               \o PrintNumber(ToU32(Loaded.m_uNextReport), DEC)
               \o <<"\r", "\n">>
       IN  /\ Len(sink) >= Len(head)
           /\ SubSeq(sink, 1, Len(head)) = head
           /\ Erased => sink = head

\* Dump(onlyIfPresent) has run on the erased default region and printed
\* nothing.
C10_Witness ==
  /\ dumpArg = "onlyIfPresent" /\ sink = <<>>
  /\ Erased /\ nTraps = 0
  /\ c_nBaseAddress = DEFAULT_BASE_ADDRESS /\ c_nMaxEntries = DEFAULT_ENTRIES

\* The slot the running handler writes: the next-report index that
\* LoadHeader gave it at entry.
SlotOfHandler == LoadHeader(eepromAtTrap).m_uNextReport

ReportWritten == pc \in {"handler_header", "handler_rearm", "spin"}

\* C11: the user data of a report is the argument of the most recent
\* SetData completed before the trap (0 if SetData was not called since
\* construction), m_uData (what GetData returns) is that same value, and the
\* handler leaves it unchanged.
C11_UserDataIsLastSet ==
  /\ GetData = lastSet
  /\ ReportWritten => LoadReport(eeprom, SlotOfHandler).m_uData = lastSet

\* The bytes of the header and of slot i, as sets of eeprom addresses.
HeaderCells == c_nBaseAddress..(c_nBaseAddress + SIZEOF_HEADER - 1)
SlotCells(i) == GetAddressForReport(i)..(GetAddressForReport(i) + SizeofReport - 1)
\* The slots next to slot i and the two ends of the log.
SlotsToCompare(i) == ({0, i - 1, i + 1, c_nMaxEntries - 1} \ {i}) \cap (0..(c_nMaxEntries - 1))

\* C12: for every base address and every maxEntries > 0 the address of slot
\* i, 0 <= i < maxEntries, is base + sizeof(header) + i * sizeof(report); it
\* is strictly increasing in i, no slot overlaps the header and no two slots
\* overlap.
C12_SlotLayout ==
  /\ \A i \in 0..(c_nMaxEntries - 1) :
       /\ GetAddressForReport(i) = c_nBaseAddress + SIZEOF_HEADER + i * SizeofReport
       /\ SlotCells(i) \cap HeaderCells = {}
       /\ \A j \in SlotsToCompare(i) : SlotCells(i) \cap SlotCells(j) = {}
  /\ \A i \in 0..(c_nMaxEntries - 2) :
       GetAddressForReport(i) < GetAddressForReport(i + 1)

C12_Witness ==
  /\ pc = "handler_header"
  /\ c_nMaxEntries = UINT8_MAX
  /\ c_nBaseAddress = 1
  /\ PROGRAM_COUNTER_SIZE = 3
  /\ SlotCells(0) \subseteq DOMAIN eeprom
  /\ GetAddressForReport(UINT8_MAX - 1) = 1781

\* C13: after DisableWatchdog from normal execution, and as long as
\* EnableWatchdog is not called again, no step delivers a trap and no step
\* is a reset; DisableWatchdog is never called while a handler runs.
C13_DisarmedStaysQuiet ==
  /\ [][disarmed => (traps' = traps /\ pc' = "run" /\ ~Reset)]_vars
  /\ [][InHandler => ~disarmed']_vars

\* C14: only the handler writes the eeprom: a step changes an eeprom byte only
\* when it is the handler saving the report or the header, so construction
\* (the reset), EnableWatchdog, DisableWatchdog, IAmAlive, SetData, GetData
\* and Dump leave every byte as it was, and a Dump repeated with the same
\* argument prints the same again.
C14_OnlyHandlerWrites ==
  /\ [][eeprom' # eeprom =>
          /\ pc \in {"handler_report", "handler_header"}
          /\ HandlerSaveReport \/ HandlerSaveHeader]_vars
  /\ [][(DumpReturned /\ dumpArg' = dumpArg) => sink' = sink]_vars

C14_Witness ==
  /\ dumpArg = "always"
  /\ sink = DumpOutput(eeprom, FALSE)
  /\ Loaded.m_uSavedReports = 2
  /\ nTraps = 3
  /\ GetData = U32(51966, 47806)

\* The handler has saved the report and the header.
HandlerDone == pc \in {"handler_rearm", "spin"}
\* Every eeprom byte that has been written before or since the trap.
CellsWritten == DOMAIN eeprom \cup DOMAIN eepromAtTrap

\* C15: one trap changes exactly one report slot and the header: the handler
\* writes its report into the slot whose index is the validated next-report
\* index it loaded at entry, rewrites the two header bytes, and leaves every
\* byte of every other slot as it was.
C15_TrapWritesOneSlot ==
  HandlerDone =>
    /\ ReadBlock(eeprom, GetAddressForReport(SlotOfHandler), SizeofReport)
         = traps[nTraps].addr \o ToBytes(traps[nTraps].data)
    /\ SlotCells(SlotOfHandler) \cup HeaderCells \subseteq DOMAIN eeprom
    /\ Stored.m_uNextReport = (SlotOfHandler + 1) % c_nMaxEntries
    /\ \A i \in (0..(c_nMaxEntries - 1)) \ {SlotOfHandler} :
         ReadBlock(eeprom, GetAddressForReport(i), SizeofReport)
           = ReadBlock(eepromAtTrap, GetAddressForReport(i), SizeofReport)
    /\ \A a \in CellsWritten \ (SlotCells(SlotOfHandler) \cup HeaderCells) :
         /\ a \in DOMAIN eeprom /\ a \in DOMAIN eepromAtTrap
         /\ eeprom[a] = eepromAtTrap[a]

\* The second trap of a log of two slots wrote slot 1 and left the report of
\* the first trap in slot 0.
C15_Witness ==
  /\ pc = "spin"
  /\ c_nMaxEntries = 2 /\ nTraps = 2 /\ SlotOfHandler = 1
  /\ traps[1] # traps[2]
  /\ SlotCells(0) \subseteq DOMAIN eepromAtTrap
  /\ ReadBlock(eeprom, GetAddressForReport(0), SizeofReport)
       = traps[1].addr \o ToBytes(traps[1].data)

HeaderBytes(ee) == ReadBlock(ee, c_nBaseAddress, SIZEOF_HEADER)
\* The slot of the running handler holds the report of its trap.
ReportInSlot ==
  ReadBlock(eeprom, GetAddressForReport(SlotOfHandler), SizeofReport)
    = traps[nTraps].addr \o ToBytes(traps[nTraps].data)
\* The steps of the handler in the order the code takes them.
HandlerOrder ==
  {<<"handler_load", "handler_report">>, <<"handler_report", "handler_header">>,
   <<"handler_header", "handler_rearm">>, <<"handler_rearm", "spin">>}

\* The handler has not made the first pass of the WriteBlock of SaveHeader.
BeforeHeaderWrite ==
  \/ pc \in {"handler_load", "handler_report"}
  \/ pc = "handler_header" /\ uByte = 0

\* C16: the handler loads the header, writes the report, writes the header,
\* re-arms the watchdog and spins, in that order: no header byte changes
\* before the whole report is written; whenever the re-armed 120 ms watchdog
\* is counting, the report and the updated header are in the eeprom; and a
\* reset that cuts the handler before the header write leaves the header
\* bytes as they were before the trap.
C16_HandlerOrder ==
  /\ [][(InHandler /\ pc' # pc) =>
          (<<pc, pc'>> \in HandlerOrder \/ WatchdogReset)]_vars
  /\ [](BeforeHeaderWrite =>
          /\ HeaderBytes(eeprom) = HeaderBytes(eepromAtTrap)
          /\ HeaderCells \cap DOMAIN eeprom = HeaderCells \cap DOMAIN eepromAtTrap)
  /\ [](pc = "handler_header" => ReportInSlot)
  /\ [](pc = "spin" =>
          /\ wdtOn /\ ~wdie /\ wdtTimeout = WDTO_120MS
          /\ ReportInSlot
          /\ HeaderCells \subseteq DOMAIN eeprom
          /\ Stored = UpdateHeader(LoadHeader(eepromAtTrap)))
  /\ [][(BeforeHeaderWrite /\ WatchdogReset) =>
          HeaderBytes(eeprom') = HeaderBytes(eepromAtTrap)]_vars

\* A reset cut the second handler during the fifth write of its report:
\* four bytes of slot 1 are written and the header still counts one.
C16_Witness ==
  /\ pc = "run" /\ cutShort /\ nTraps = 2 /\ c_nMaxEntries = 2
  /\ DOMAIN eeprom \cap SlotCells(1)
       = GetAddressForReport(1)..(GetAddressForReport(1) + 3)
  /\ Stored = [m_uSavedReports |-> 1, m_uNextReport |-> 1]

\* The header bytes have been written by a handler.
HeaderPersisted == HeaderCells \subseteq DOMAIN eeprom

\* C17: from an erased region, the header bytes the handler has stored are
\* in range as they are, before LoadHeader validates them: stored
\* savedReports <= maxEntries and stored nextReportIndex < maxEntries.
C17_StoredHeaderInRange ==
  HeaderPersisted =>
    /\ 0 <= Stored.m_uSavedReports /\ Stored.m_uSavedReports <= c_nMaxEntries
    /\ 0 <= Stored.m_uNextReport /\ Stored.m_uNextReport < c_nMaxEntries

\* C19: from an erased region, for every maxEntries the savedReports that
\* LoadHeader returns never decreases from one trap to the next.
C19_SavedReportsNeverDecreases ==
  [][LoadHeader(eeprom').m_uSavedReports >= LoadHeader(eeprom).m_uSavedReports]_vars

\* The slot indices the loop of Dump passes to LoadReport.
DumpIndices(ee) == 0..(LoadHeader(ee).m_uSavedReports - 1)

\* C20: from an erased region, when no handler was cut short, every slot
\* that Dump enumerates (index below the loaded savedReports) has been
\* written by a trap: none of its bytes is still erased.
C20_EnumeratedSlotsWritten ==
  ~cutShort =>
    \A i \in DumpIndices(eeprom) :
      /\ i \in DOMAIN slotTrap
      /\ SlotCells(i) \subseteq DOMAIN eeprom

\* The log of three slots is full and has wrapped.
C20_Witness ==
  /\ pc = "run" /\ ~cutShort
  /\ c_nMaxEntries = 3 /\ nTraps = 4
  /\ DumpIndices(eeprom) = 0..2

\* The eeprom addresses of the header and the maxEntries slots.
Region ==
  c_nBaseAddress..(c_nBaseAddress + SIZEOF_HEADER + c_nMaxEntries * SizeofReport - 1)
SlotIndices == 0..(c_nMaxEntries - 1)

\* C18: whatever the eeprom holds and for every maxEntries in 1..255, the
\* handler and Dump pass GetAddressForReport only indices i with
\* 0 <= i < maxEntries (its out-of-range branch is never taken), and every
\* byte they read or write lies inside the region of the header and the
\* maxEntries slots.
C18_AccessInsideRegion ==
  /\ pc = "handler_report" =>
       /\ Header.m_uNextReport \in SlotIndices
       /\ SlotCells(Header.m_uNextReport) \subseteq Region
  /\ DumpIndices(eeprom) \subseteq SlotIndices
  /\ \A i \in DumpIndices(eeprom) :
       /\ GetAddressForReport(i) >= c_nBaseAddress + SIZEOF_HEADER
       /\ GetAddressForReport(i) + SizeofReport - 1
            <= c_nBaseAddress + SIZEOF_HEADER + c_nMaxEntries * SizeofReport - 1
  /\ HeaderCells \subseteq Region
  /\ DOMAIN eeprom \subseteq Region

\* The handler met a header of garbage, validated it and wrote slot 0.
C18_Witness ==
  /\ pc = "handler_header"
  /\ c_nMaxEntries = DEFAULT_ENTRIES
  /\ HeaderBytes(eepromAtTrap) = <<UINT8_MAX - 1, DEFAULT_ENTRIES>>
  /\ Header = [m_uSavedReports |-> DEFAULT_ENTRIES, m_uNextReport |-> 0]
  /\ SlotCells(0) \subseteq DOMAIN eeprom
  /\ DumpIndices(eeprom) = 0..(DEFAULT_ENTRIES - 1)

====
